---- MODULE Spec2Model ----
(***************************************************************************)
(* GitSavvy: the reactive state store (core/store.py) and the render       *)
(* engine of the interfaces (common/ui.py).                                *)
(*                                                                         *)
(* Store.  Several threads call update_state, current_state, subscribe and *)
(* the disposers returned by subscribe.  The module-level dictionaries     *)
(* `state` and `subscribers` and the module-level `lock` are shared.       *)
(* Every thread has a stack of update_state activations: a callback run by *)
(* notify_all may itself call update_state, subscribe or a disposer.       *)
(*                                                                         *)
(* One action is one step a thread takes between two points where the      *)
(* interpreter may switch threads; a single dictionary operation           *)
(* (state[k], dict.update, dict.pop, subscribers[key] = ...) is one step,  *)
(* the lookup state[k] of a missing key included (the default record is    *)
(* created and stored in that step).                                       *)
(* `subscribers` is an insertion-ordered dict whose keys are fresh uuid4   *)
(* values; they are numbered here in the order subscribe created them, so  *)
(* iteration order is ascending key order.  Iterating subscribers.values() *)
(* raises RuntimeError as soon as the dict's size differs from its size    *)
(* when the iterator was created.                                          *)
(*                                                                         *)
(* Render engine.  One pass of Interface._render_template over a template  *)
(* and the render functions of an interface: get_keyed_content builds the  *)
(* queue, every placeholder of every key of the queue is spliced, the      *)
(* regions recorded so far are adjusted at every splice.  Specification    *)
(* Spec runs the store, specification RenderSpec runs one pass.            *)
(***************************************************************************)
EXTENDS Integers, Sequences, FiniteSets, TLC

\* ---- bounds ------------------------------------------------------------
MaxOps == 3          \* calls into the store in one behaviour
MaxDepth == 2        \* update_state activations nested on one thread

Threads == {"t1", "t2"}
Repos == {"r1", "r2"}
Fields == {"status", "last_remote_used"}
\* the inputs the calls are drawn from
Scopes == {"r1", "*"}                                  \* subscribe: repo_path
Watched == {{}, {"last_remote_used"}}                   \* subscribe: keys
Partials == {{"status"}, Fields}                       \* update_state: fields

VARIABLES
    state,        \* store.state: repo_path -> record (materialised keys only)
    subscribers,  \* store.subscribers: subscription key -> (repo_path, keys)
    lock,         \* store.lock: "free" or the thread holding it
    stack,        \* per thread: its update_state activations, innermost last
    ncalls,       \* update_state calls made so far (names each call)
    nsubs,        \* subscribe calls made so far (the uuid4 source)
    applied,      \* history: the merges, in the order they held the lock
    calls,        \* history: the callback invocations, in order
    finished,     \* history: update_state call -> how it ended
    registered,   \* history: every subscription ever made
    disposals,    \* history: subscription key -> calls of its disposer
    reads,        \* history: keys handed to current_state
    escaped       \* history: exception kinds that reached an API caller

vars == <<state, subscribers, lock, stack, ncalls, nsubs, applied, calls,
          finished, registered, disposals, reads, escaped>>

\* ======================================================================
\* The interface render engine (common/ui.py, Interface._render_template)
\* ======================================================================
\* Text is a sequence of characters.  A section name is one character, a
\* placeholder for it the characters "{", k times "<" and a blank when
\* k > 0, the name, "}".  The queue of get_keyed_content is an OrderedDict
\* walked while it grows: the interpreter the plugin runs in walks the
\* linked list of the dict, so appended keys are visited in the same walk.

\* ---- bounds ------------------------------------------------------------
MaxItems == 3        \* literals and placeholders in a template
MaxSubItems == 2     \* literals and placeholders in a sub-template
MaxBackspaces == 2   \* "<" markers in one placeholder
MaxSplices == 4      \* iterations of the while loop for one key

Sections == {"a", "b"}        \* the @partial methods of the interface
ChildSections == {"x", "y"}   \* render functions handed back in a tuple
PlainTexts == {<<>>, <<"Y">>} \* what a plain render function returns
Marked == {"b"}               \* the section a template places with markers
\* the longest text a pass builds unless it loops
MaxLen == MaxItems * (MaxBackspaces + 4)

VARIABLES
    template,       \* self.template
    partials,       \* self.partials in iteration order: key, render_fn
    keyed_content,  \* the OrderedDict of get_keyed_content, as a sequence
    cursor,         \* position of the running for loop in keyed_content
    rendered,       \* _render_template: rendered
    regions,        \* _render_template: regions, key -> [a, b]
    phase,          \* where the pass is
    invoked,        \* history: name -> calls of its render function
    spliced,        \* history: name -> splices made for it
    last,           \* history: the latest splice, with the state before it
    marks           \* history: per character, the splices it stems from

rvars == <<template, partials, keyed_content, cursor, rendered, regions, phase,
           invoked, spliced, last, marks>>

\* the state of the engine while no pass runs
NoRender ==
    /\ template = <<>>
    /\ partials = <<>>
    /\ keyed_content = <<>>
    /\ cursor = 0
    /\ rendered = <<>>
    /\ regions = <<>>
    /\ phase = "idle"
    /\ invoked = <<>>
    /\ spliced = <<>>
    /\ last = <<>>
    /\ marks = <<>>

\* ======================================================================
\* Further state: repeated passes, dashboards, offers to initialise
\* ======================================================================
MaxPasses == 2       \* calls of Interface.render on one interface

VARIABLES
    passes,           \* calls of Interface.render made so far
    resolved_before   \* history: child names spliced in earlier passes

pvars == <<passes, resolved_before>>

NoPasses ==
    /\ passes = 0
    /\ resolved_before = {}

MaxCommands == 3     \* commands and constructions run on the UI thread

Windows == {"w1", "w2"}
DashboardThreads == {"ui", "worker"}

VARIABLES
    active_window,  \* sublime.active_window()
    views,          \* the views made by create_view, view id = position
    interfaces,     \* ui.interfaces: view id -> interface (its number)
    objects,        \* the Interface objects made, number = position
    queue,          \* the tasks handed to enqueue_on_worker, oldest first
    running,        \* per thread: the interface whose render() it is in
    commands,       \* commands run so far
    returned_existing, \* history: constructions that returned a session
    on_close_calls, \* history: view id -> calls of on_close
    late,           \* history: what was done to a view after its close
    aborted,        \* history: interfaces whose render() raised
    errors          \* history: exceptions raised outside render functions

svars == <<active_window, views, interfaces, objects, queue, running,
           commands, returned_existing, on_close_calls, late, aborted,
           errors>>

NoDashboards ==
    /\ active_window = "w1"
    /\ views = <<>>
    /\ interfaces = <<>>
    /\ objects = <<>>
    /\ queue = <<>>
    /\ running = [th \in DashboardThreads |-> <<>>]
    /\ commands = 0
    /\ returned_existing = 0
    /\ on_close_calls = <<>>
    /\ late = {}
    /\ aborted = {}
    /\ errors = {}

MaxOffers == 3       \* runs of gs_offer_init and gs_init
MaxDraws == 3        \* runs of gs_new_content_and_regions

OfferViews == {"v1", "v2"}    \* the active view of a run of gs_offer_init
Dirs == {"d1", "d2"}          \* directories a repo can be initialised in

VARIABLES
    views_with_offer_made,   \* init.views_with_offer_made
    disable_git_init_prompt, \* the setting of that name
    git_dirs,       \* the directories that hold a .git
    scheduled,      \* gs_init.run_async calls waiting in set_timeout_async
    panels,         \* open path prompts (show_single_line_input_panel)
    offers,         \* runs of gs_offer_init and gs_init so far
    dialogs,        \* history: view -> NO_REPO_MESSAGE dialogs shown
    git_inits       \* history: the runs of git init

ivars == <<views_with_offer_made, disable_git_init_prompt, git_dirs,
           scheduled, panels, offers, dialogs, git_inits>>

NoOffers ==
    /\ views_with_offer_made = {}
    /\ disable_git_init_prompt = FALSE
    /\ git_dirs = {}
    /\ scheduled = 0
    /\ panels = 0
    /\ offers = 0
    /\ dialogs = <<>>
    /\ git_inits = {}

VARIABLES
    region_names,          \* per view: the git_savvy_interface.* regions on it
    current_region_names,  \* per view: the attribute of its command object
    shown,                 \* history: per view, the key sets applied
    draws                  \* runs of gs_new_content_and_regions so far

dvars == <<region_names, current_region_names, shown, draws>>

NoDraws ==
    /\ region_names = <<>>
    /\ current_region_names = <<>>
    /\ shown = <<>>
    /\ draws = 0

MaxBranchCommands == 3   \* branch dashboard commands and panel answers

\* interface._branches: the branches git reports, by canonical name
LocalBranches == {"master", "dev"}
RemoteBranches == {"origin/master"}
Branches == LocalBranches \cup RemoteBranches

VARIABLES
    selected_branches, \* the branch names under the cursors of the view
    branch_tasks,      \* the run methods handed to the worker (@on_worker)
    open_panels,       \* the panels waiting for an answer
    local_branch,      \* gs_branches_configure_tracking: self.local_branch
    branch_name,       \* gs_branches_edit_branch_description: self.branch_name
    effects,           \* history: flashes, git commands, panels, commands
    branch_commands    \* commands and panel answers so far

bvars == <<selected_branches, branch_tasks, open_panels, local_branch,
           branch_name, effects, branch_commands>>

NoBranchCommands ==
    /\ selected_branches = {}
    /\ branch_tasks = <<>>
    /\ open_panels = {}
    /\ local_branch = "None"
    /\ branch_name = "None"
    /\ effects = <<>>
    /\ branch_commands = 0

\* everything but the store and the engine of one pass
ovars == <<pvars, svars, ivars, dvars, bvars>>
NoOthers == NoPasses /\ NoDashboards /\ NoOffers /\ NoDraws /\ NoBranchCommands

\* ---- pure helpers ------------------------------------------------------
\* initial_state(): {"last_branches": deque([None] * 2, 2)}
initial_state == [last_branches |-> <<"None", "None">>]

\* (a slip: a plain lookup with a default, state.get(k, initial_state()))
NoMaterialise(d, k) == d

\* defaultdict(initial_state).__getitem__: a missing key is stored on access
Materialise(d, k) == IF k \in DOMAIN d THEN d ELSE d @@ (k :> initial_state)

\* (a slip: the record is replaced by the partial)
DictReplace(rec, keys, v) == [f \in keys |-> v]

\* (a slip: the fields written by earlier partials are dropped)
DictDropOthers(rec, keys, v) ==
    [f \in keys \cup {"last_branches"} |-> IF f \in keys THEN v ELSE rec[f]]

\* dict.update(partial_state): every field of the partial is (over)written
DictUpdate(rec, keys, v) ==
    [f \in (DOMAIN rec) \cup keys |-> IF f \in keys THEN v ELSE rec[f]]

\* subscribers.pop(key, None)
Pop(d, key) == [k \in (DOMAIN d) \ {key} |-> d[k]]

\* (a slip: the scope alone decides)
MatchesScope(entry, repo_path, updated_keys) ==
    entry.repo_path \in {repo_path, "*"}

\* the condition of notify_all, on one fetched entry
Matches(entry, repo_path, updated_keys) ==
    /\ entry.repo_path \in {repo_path, "*"}
    /\ (updated_keys \cap entry.keys) # {}

\* calls into the store made so far
RECURSIVE Sum(_, _)
Sum(f, S) == IF S = {} THEN 0
             ELSE LET x == CHOOSE y \in S : TRUE IN f[x] + Sum(f, S \ {x})
Ops == ncalls + nsubs + Sum(disposals, DOMAIN disposals) + Cardinality(reads)

Top(t) == stack[t][Len(stack[t])]
At(t, pc) == stack[t] # <<>> /\ Top(t).pc = pc
SetTop(t, f) == [stack EXCEPT ![t] = [@ EXCEPT ![Len(@)] = f]]

Min(S) == CHOOSE x \in S : \A y \in S : x <= y

\* (a slip: subscribers.pop(key), which raises KeyError for a missing key)
PopNoDefault(d, key) == key \notin DOMAIN d

\* subscribers.pop(key, None): the default is given, a missing key raises nothing
PopRaises(d, key) == FALSE

\* with eat_but_log_errors(): an exception raised in the block is logged and
\* swallowed, and control goes on after the block, at the next iteration
EatButLogErrors == "next"

\* the stack of t after its innermost update_state ended: the callback that
\* made the call (if any) ends too, normally or with the error that
\* eat_but_log_errors swallows, and its fan-out goes on
PopFrame(t) ==
    LET n == Len(stack[t]) IN
    IF n = 1 THEN <<>>
    ELSE [SubSeq(stack[t], 1, n - 1) EXCEPT ![n - 1].pc = "next"]

\* the history entry of an update_state call that ends now
Ending(f, how) ==
    [repo_path |-> f.repo_path, updated_keys |-> f.updated_keys, how |-> how,
     stable |-> f.start \cap DOMAIN subscribers]

NewFrame(repo_path, keys, id) ==
    [repo_path |-> repo_path, updated_keys |-> keys, id |-> id, pc |-> "lock",
     pos |-> 0, used |-> 0, cur |-> 0, start |-> DOMAIN subscribers]

\* the history entry of the invocation of the fetched callback
Invocation(f, raised, did) ==
    [sub |-> f.cur, upd |-> f.id, seen |-> state[f.repo_path],
     live |-> f.cur \in DOMAIN subscribers, raised |-> raised, did |-> did]

\* ---- Init --------------------------------------------------------------
StoreInit ==
    /\ state = <<>>
    /\ subscribers = <<>>
    /\ lock = "free"
    /\ stack = [t \in Threads |-> <<>>]
    /\ ncalls = 0
    /\ nsubs = 0
    /\ applied = <<>>
    /\ calls = <<>>
    /\ finished = <<>>
    /\ registered = <<>>
    /\ disposals = <<>>
    /\ reads = {}
    /\ escaped = {}

Init == StoreInit /\ NoRender /\ NoOthers

\* ---- update_state ------------------------------------------------------
\* a thread calls update_state(repo_path, partial_state); the partial writes
\* the value ncalls' (a value no other call writes) to the fields `keys`
update_state_call(t, repo_path, keys) ==
    /\ stack[t] = <<>>
    /\ Ops < MaxOps
    /\ ncalls' = ncalls + 1
    /\ stack' = [stack EXCEPT ![t] = <<NewFrame(repo_path, keys, ncalls + 1)>>]
    /\ UNCHANGED <<state, subscribers, lock, nsubs, applied, calls, finished,
                   registered, disposals, reads, escaped>>

\* with lock: (acquire; blocks while another activation holds it)
update_state_lock(t) ==
    /\ At(t, "lock")
    /\ lock = "free"
    /\ lock' = t
    /\ stack' = SetTop(t, [Top(t) EXCEPT !.pc = "merge"])
    /\ UNCHANGED <<state, subscribers, ncalls, nsubs, applied, calls, finished,
                   registered, disposals, reads, escaped>>

\* (a slip: the merge is done but the lock is never released)
update_state_merge_keeping_lock(t) ==
    /\ At(t, "merge")
    /\ LET f == Top(t) IN
        /\ state' = [Materialise(state, f.repo_path) EXCEPT ![f.repo_path] =
                        DictUpdate(@, f.updated_keys, f.id)]
        /\ applied' = Append(applied, [repo_path |-> f.repo_path,
                                       keys |-> f.updated_keys, id |-> f.id])
        /\ stack' = SetTop(t, [f EXCEPT !.pc = "notify"])
    /\ UNCHANGED <<subscribers, lock, ncalls, nsubs, calls, finished,
                   registered, disposals, reads, escaped>>

\* state[repo_path].update(partial_state), and the with block ends: the lock
\* is released
update_state_merge(t) ==
    /\ At(t, "merge")
    /\ LET f == Top(t) IN
        /\ state' = [Materialise(state, f.repo_path) EXCEPT ![f.repo_path] =
                        DictUpdate(@, f.updated_keys, f.id)]
        /\ applied' = Append(applied, [repo_path |-> f.repo_path,
                                       keys |-> f.updated_keys, id |-> f.id])
        /\ stack' = SetTop(t, [f EXCEPT !.pc = "notify"])
    /\ lock' = "free"
    /\ UNCHANGED <<subscribers, ncalls, nsubs, calls, finished,
                   registered, disposals, reads, escaped>>

\* ---- notify_all --------------------------------------------------------
\* notify_all(repo_path, partial_state.keys(), state[repo_path]) is entered
\* and the for statement creates the iterator over subscribers.values(),
\* which remembers the size of the dict
notify_all_enter(t) ==
    /\ At(t, "notify")
    /\ stack' = SetTop(t, [Top(t) EXCEPT !.pc = "next", !.pos = 0,
                              !.used = Cardinality(DOMAIN subscribers)])
    /\ UNCHANGED <<state, subscribers, lock, ncalls, nsubs, applied, calls,
                   finished, registered, disposals, reads, escaped>>

\* the iterator finds the dict's size changed: RuntimeError leaves notify_all
\* and update_state
notify_all_changed(t) ==
    /\ At(t, "next")
    /\ Cardinality(DOMAIN subscribers) # Top(t).used
    /\ finished' = finished @@ (Top(t).id :> Ending(Top(t), "RuntimeError"))
    /\ escaped' = escaped \cup {"RuntimeError"}
    /\ stack' = [stack EXCEPT ![t] = PopFrame(t)]
    /\ UNCHANGED <<state, subscribers, lock, ncalls, nsubs, applied, calls,
                   registered, disposals, reads>>

\* the iterator is exhausted: notify_all and update_state return
notify_all_done(t) ==
    /\ At(t, "next")
    /\ Cardinality(DOMAIN subscribers) = Top(t).used
    /\ {k \in DOMAIN subscribers : k > Top(t).pos} = {}
    /\ finished' = finished @@ (Top(t).id :> Ending(Top(t), "returned"))
    /\ stack' = [stack EXCEPT ![t] = PopFrame(t)]
    /\ UNCHANGED <<state, subscribers, lock, ncalls, nsubs, applied, calls,
                   registered, disposals, reads, escaped>>

\* the iterator yields the next entry and the condition is evaluated on it
notify_all_next(t) ==
    /\ At(t, "next")
    /\ Cardinality(DOMAIN subscribers) = Top(t).used
    /\ {k \in DOMAIN subscribers : k > Top(t).pos} # {}
    /\ LET f == Top(t)
           k == Min({j \in DOMAIN subscribers : j > f.pos}) IN
        stack' = SetTop(t, [f EXCEPT !.pos = k, !.cur = k,
                     !.pc = IF Matches(subscribers[k], f.repo_path, f.updated_keys)
                            THEN "call" ELSE "next"])
    /\ UNCHANGED <<state, subscribers, lock, ncalls, nsubs, applied, calls,
                   finished, registered, disposals, reads, escaped>>

\* ---- the callbacks (with eat_but_log_errors(): fn(repo_path, current_state))
\* fn receives the record object itself, so what it reads is the record's
\* content at the time it runs.  What fn does is the subscriber's business:
\* it returns, raises, or calls back into the store.
callback_returns(t) ==
    /\ At(t, "call")
    /\ calls' = Append(calls, Invocation(Top(t), FALSE, "return"))
    /\ stack' = SetTop(t, [Top(t) EXCEPT !.pc = "next"])
    /\ UNCHANGED <<state, subscribers, lock, ncalls, nsubs, applied, finished,
                   registered, disposals, reads, escaped>>

\* fn raises: eat_but_log_errors logs the error and the loop goes on
callback_raises(t) ==
    /\ At(t, "call")
    /\ calls' = Append(calls, Invocation(Top(t), TRUE, "raise"))
    /\ stack' = SetTop(t, [Top(t) EXCEPT !.pc = EatButLogErrors])
    /\ UNCHANGED <<state, subscribers, lock, ncalls, nsubs, applied, finished,
                   registered, disposals, reads, escaped>>

\* fn calls update_state: a nested activation on the same thread
callback_updates(t, repo_path, keys) ==
    /\ At(t, "call")
    /\ Len(stack[t]) < MaxDepth
    /\ Ops < MaxOps
    /\ ncalls' = ncalls + 1
    /\ calls' = Append(calls, Invocation(Top(t), FALSE, "update_state"))
    /\ stack' = [stack EXCEPT ![t] =
                    Append([@ EXCEPT ![Len(@)].pc = "incb"],
                           NewFrame(repo_path, keys, ncalls + 1))]
    /\ UNCHANGED <<state, subscribers, lock, nsubs, applied, finished,
                   registered, disposals, reads, escaped>>

\* ---- subscribe, _unsubscribe, current_state ------------------------------
\* subscribers[uuid4().hex] = (repo_path, keys, fn)
Subscribed(repo_path, keys) ==
    /\ Ops < MaxOps
    /\ nsubs' = nsubs + 1
    /\ subscribers' = subscribers @@ (nsubs + 1 :> [repo_path |-> repo_path, keys |-> keys])
    /\ registered' = registered @@ (nsubs + 1 :> [repo_path |-> repo_path, keys |-> keys])
    /\ disposals' = disposals @@ (nsubs + 1 :> 0)

\* the disposer partial(_unsubscribe, key) runs: subscribers.pop(key, None)
Unsubscribed(key) ==
    /\ Ops < MaxOps
    /\ key \in DOMAIN registered
    /\ disposals' = [disposals EXCEPT ![key] = @ + 1]
    /\ subscribers' = Pop(subscribers, key)
    /\ escaped' = IF PopRaises(subscribers, key) THEN escaped \cup {"KeyError"}
                  ELSE escaped
    /\ UNCHANGED <<nsubs, registered>>

subscribe(t, repo_path, keys) ==
    /\ stack[t] = <<>>
    /\ Subscribed(repo_path, keys)
    /\ UNCHANGED <<state, lock, stack, ncalls, applied, calls, finished, reads,
                   escaped>>

unsubscribe(t, key) ==
    /\ stack[t] = <<>>
    /\ Unsubscribed(key)
    /\ UNCHANGED <<state, lock, stack, ncalls, applied, calls, finished, reads>>

\* fn subscribes
callback_subscribes(t, repo_path, keys) ==
    /\ At(t, "call")
    /\ Subscribed(repo_path, keys)
    /\ calls' = Append(calls, Invocation(Top(t), FALSE, "subscribe"))
    /\ stack' = SetTop(t, [Top(t) EXCEPT !.pc = "next"])
    /\ UNCHANGED <<state, lock, ncalls, applied, finished, reads, escaped>>

\* fn calls a disposer
callback_unsubscribes(t, key) ==
    /\ At(t, "call")
    /\ Unsubscribed(key)
    /\ calls' = Append(calls, Invocation(Top(t), FALSE, "dispose"))
    /\ stack' = SetTop(t, [Top(t) EXCEPT !.pc = "next"])
    /\ UNCHANGED <<state, lock, ncalls, applied, finished, reads>>

\* return state[repo_path]
current_state(t, repo_path) ==
    /\ stack[t] = <<>>
    /\ Ops < MaxOps
    /\ repo_path \notin reads
    /\ reads' = reads \cup {repo_path}
    /\ state' = Materialise(state, repo_path)
    /\ UNCHANGED <<subscribers, lock, stack, ncalls, nsubs, applied, calls,
                   finished, registered, disposals, escaped>>

\* ---- specification -----------------------------------------------------
ThreadStep(t) ==
    \/ \E r \in Repos, ks \in Partials : update_state_call(t, r, ks)
    \/ update_state_lock(t)
    \/ update_state_merge(t)
    \/ notify_all_enter(t)
    \/ notify_all_changed(t)
    \/ notify_all_done(t)
    \/ notify_all_next(t)
    \/ callback_returns(t)
    \/ callback_raises(t)
    \/ \E r \in Repos, ks \in Partials : callback_updates(t, r, ks)
    \/ \E r \in Scopes, ks \in Watched : callback_subscribes(t, r, ks)
    \/ \E k \in DOMAIN registered : callback_unsubscribes(t, k)
    \/ \E r \in Scopes, ks \in Watched : subscribe(t, r, ks)
    \/ \E k \in DOMAIN registered : unsubscribe(t, k)
    \/ \E r \in Repos : current_state(t, r)

Next == (\E t \in Threads : ThreadStep(t)) /\ UNCHANGED <<rvars, ovars>>

Spec == Init /\ [][Next]_vars

\* ---- what the histories say --------------------------------------------
CallIndexes == 1..Len(calls)
MergeIndexes == 1..Len(applied)

\* the place of update_state call u among the merges
MergeIndex(u) == CHOOSE i \in MergeIndexes : applied[i].id = u

\* the default record with the first n merges that name repo_path merged
\* into it from left to right
RECURSIVE LeftFold(_, _)
LeftFold(repo_path, n) ==
    IF n = 0 THEN initial_state
    ELSE LET e == applied[n]
             before == LeftFold(repo_path, n - 1) IN
         IF e.repo_path = repo_path THEN [f \in e.keys |-> e.id] @@ before
         ELSE before

\* what current_state(repo_path) returns now
CurrentValue(repo_path) == Materialise(state, repo_path)[repo_path]

\* how often subscription s was invoked for update_state call u
Invoked(s, u) ==
    Cardinality({i \in CallIndexes : calls[i].sub = s /\ calls[i].upd = u})

\* ---- claims ------------------------------------------------------------

\* C1: after any sequence of update_state calls, also concurrent ones,
\* current_state(repo_path) is the default record with the partials merged
\* left to right in the order in which the merges held the lock.
C1_LeftFoldMerge ==
    \A r \in Repos : CurrentValue(r) = LeftFold(r, Len(applied))

\* two threads updated the same key, the merges in the opposite order of the
\* calls, the later merge overwriting one field of the earlier one
C1_Witness ==
    /\ Len(applied) = 2
    /\ applied[1].repo_path = applied[2].repo_path
    /\ applied[1].id = 2 /\ applied[2].id = 1
    /\ applied[1].keys = Fields /\ applied[2].keys = {"status"}
    /\ \A t \in Threads : stack[t] = <<>>

\* C2: a subscription that is registered from before an update_state call
\* until after it has ended is invoked exactly once for that call if its
\* scope is the call's repo_path or "*" and its keys intersect the partial's
\* fields, and not at all otherwise.
C2_FiresIffMatching ==
    \A u \in DOMAIN finished : \A s \in finished[u].stable :
        Invoked(s, u) =
            IF Matches(registered[s], finished[u].repo_path,
                       finished[u].updated_keys) THEN 1 ELSE 0

\* C3: one subscription is invoked for the updates of one key in the order
\* of their merges.
C3_FifoPerKey ==
    \A i, j \in CallIndexes :
        (/\ i < j
         /\ calls[i].sub = calls[j].sub
         /\ applied[MergeIndex(calls[i].upd)].repo_path =
                applied[MergeIndex(calls[j].upd)].repo_path)
        => MergeIndex(calls[i].upd) <= MergeIndex(calls[j].upd)

\* C4: the record a callback is handed holds what the record held right
\* after the merge of the update that triggered the callback.
C4_SnapshotOfTheMerge ==
    \A i \in CallIndexes :
        LET n == MergeIndex(calls[i].upd) IN
        calls[i].seen = LeftFold(applied[n].repo_path, n)

\* C5: no callback is invoked after the disposer of its subscription has
\* returned.
C5_NoCallAfterDispose ==
    \A i \in CallIndexes : calls[i].live

\* C6: a call of a disposer removes its own subscription and no other, a
\* second or later call leaves the registry as it is, and no call raises.
C6_DisposerIdempotent ==
    [][\A k \in DOMAIN disposals :
          disposals'[k] > disposals[k] =>
              /\ subscribers' = [j \in (DOMAIN subscribers) \ {k} |-> subscribers[j]]
              /\ disposals[k] >= 1 => subscribers' = subscribers
              /\ "KeyError" \notin escaped']_vars

\* a disposer has been called twice
C6_Witness == \E k \in DOMAIN disposals : disposals[k] >= 2

\* C7: an update_state called from inside a callback does not deadlock: the
\* lock is held only between the acquire and the merge, never while a
\* callback runs, a thread waiting for the lock waits for another thread
\* that can take its step, and every thread inside update_state can take a
\* step or waits for such a thread.
C7_ReentrantUpdateNoDeadlock ==
    \A t \in Threads :
        /\ lock = t => At(t, "merge")
        /\ stack[t] # <<>> =>
              \/ ENABLED ThreadStep(t)
              \/ /\ At(t, "lock")
                 /\ lock \in Threads \ {t}
                 /\ ENABLED ThreadStep(lock)

\* a callback called update_state, and the nested call has merged and is
\* fanning out
C7_Witness ==
    \E t \in Threads :
        /\ Len(stack[t]) = 2
        /\ stack[t][1].pc = "incb"
        /\ stack[t][2].pc = "next"
        /\ \E i \in MergeIndexes : applied[i].id = stack[t][2].id

\* C8: when a callback raises during a fan-out, the update_state call still
\* returns normally, its merge stays applied, and every other matching
\* subscription (registered throughout the call) is invoked in that fan-out.
C8_RaiseIsIsolated ==
    \A u \in DOMAIN finished :
        (\E i \in CallIndexes : calls[i].upd = u /\ calls[i].raised) =>
            /\ finished[u].how = "returned"
            /\ \E i \in MergeIndexes : applied[i].id = u
            /\ \A s \in finished[u].stable :
                  Matches(registered[s], finished[u].repo_path,
                          finished[u].updated_keys) => Invoked(s, u) >= 1

\* C36: a callback that subscribes or calls a disposer during a fan-out
\* does not disturb it: the update_state call returns normally and every
\* matching subscription registered throughout the call is invoked exactly
\* once.
C36_RegistryChangeInCallback ==
    \A u \in DOMAIN finished :
        (\E i \in CallIndexes :
            calls[i].upd = u /\ calls[i].did \in {"subscribe", "dispose"}) =>
            /\ finished[u].how = "returned"
            /\ \A s \in finished[u].stable :
                  Matches(registered[s], finished[u].repo_path,
                          finished[u].updated_keys) => Invoked(s, u) = 1

\* C9: a subscription with an empty set of watched fields is never invoked.
C9_EmptyWatchNeverFires ==
    \A i \in CallIndexes : registered[calls[i].sub].keys # {}

\* an update_state call has returned whose fan-out passed a subscription
\* with no watched fields and a scope that covers the call ("*" too)
C9_Witness ==
    \E u \in DOMAIN finished : \E s, w \in finished[u].stable :
        /\ finished[u].how = "returned"
        /\ registered[s].keys = {}
        /\ registered[s].repo_path = finished[u].repo_path
        /\ registered[w].keys = {}
        /\ registered[w].repo_path = "*"

\* C10: current_state of a key that has no record stores the default record
\* under the key and returns it, changes no other record, and invokes no
\* callback; the record of every key read stays in the store.
C10_ReadMaterialisesDefault ==
    /\ [][\A r \in Repos :
            r \in reads' \ reads =>
                /\ r \in DOMAIN state'
                /\ state'[r] = IF r \in DOMAIN state THEN state[r]
                               ELSE initial_state
                /\ \A q \in DOMAIN state : q \in DOMAIN state' /\ state'[q] = state[q]
                /\ calls' = calls
                /\ stack' = stack]_vars
    /\ [](reads \subseteq DOMAIN state)

\* a key was read before any update of it, and then updated: the update
\* merged into the record the read had stored
C10_Witness ==
    \E r \in reads :
        /\ Len(applied) = 1
        /\ applied[1].repo_path = r
        /\ applied[1].keys = {"status"}
        /\ state[r] = [last_branches |-> <<"None", "None">>, status |-> applied[1].id]
        /\ calls = <<>>

\* C38: the merge of update_state(K, partial) changes only the fields of
\* K's record named in partial; every other field of K's record, the record
\* of every other key and the subscriber registry stay as they are, and
\* subscribe and the disposers change no state record.
C38_MergeFrame ==
    /\ [][Len(applied') > Len(applied) =>
            LET e == applied'[Len(applied')]
                before == Materialise(state, e.repo_path)[e.repo_path]
            IN  /\ DOMAIN state'[e.repo_path] = (DOMAIN before) \cup e.keys
                /\ \A f \in (DOMAIN before) \ e.keys :
                       state'[e.repo_path][f] = before[f]
                /\ DOMAIN state' = (DOMAIN state) \cup {e.repo_path}
                /\ \A q \in (DOMAIN state) \ {e.repo_path} :
                       state'[q] = state[q]
                /\ subscribers' = subscribers]_vars
    /\ [][(nsubs' # nsubs \/ disposals' # disposals) => state' = state]_vars

\* a second merge into a record wrote one field and kept the field the
\* first merge had written, with a subscription registered
C38_Witness ==
    /\ Len(applied) = 2
    /\ applied[1].repo_path = applied[2].repo_path
    /\ applied[1].keys = Fields /\ applied[2].keys = {"status"}
    /\ LET rec == state[applied[1].repo_path]
       IN  /\ rec.last_remote_used = applied[1].id
           /\ rec.status = applied[2].id
    /\ subscribers # <<>>

\* ======================================================================
\* Interface._render_template, get_keyed_content, _adjust_region_positions
\* ======================================================================
Repeat(c, n) == [i \in 1..n |-> c]

\* a bound of a Python slice of a sequence of length len: negative bounds
\* count from the end, and every bound is clipped to 0..len
SliceBound(n, len) ==
    IF n < 0 THEN (IF len + n < 0 THEN 0 ELSE len + n)
    ELSE IF n > len THEN len ELSE n

\* s[i:j]
Slice(s, i, j) == SubSeq(s, SliceBound(i, Len(s)) + 1, SliceBound(j, Len(s)))

\* the text the pattern "\{(<+ )?" + key + "\}" accepts with k markers
Placeholder(k, key) ==
    <<"{">> \o (IF k > 0 THEN Repeat("<", k) \o <<" ">> ELSE <<>>)
            \o <<key>> \o <<"}">>

\* the "<" characters that follow offset i of text (offsets count from 0)
Backspaces(text, i) ==
    CHOOSE n \in 0..(Len(text) - i) :
        /\ \A m \in 1..n : text[i + m] = "<"
        /\ (i + n + 1 > Len(text) \/ text[i + n + 1] # "<")

\* a pattern that forgets the key
MatchAnyKey(text, i, key) ==
    /\ text[i + 1] = "{"
    /\ \E other \in Sections \cup ChildSections :
          LET p == Placeholder(Backspaces(text, i + 1), other)
          IN  Slice(text, i, i + Len(p)) = p

\* the pattern matches at offset i of text
MatchAt(text, i, key) ==
    /\ text[i + 1] = "{"
    /\ LET p == Placeholder(Backspaces(text, i + 1), key)
       IN  Slice(text, i, i + Len(p)) = p

Spans(text, key) == {i \in 0..(Len(text) - 1) : MatchAt(text, i, key)}

\* pattern.search(rendered) is not None
Found(text, key) == \E i \in 0..(Len(text) - 1) : MatchAt(text, i, key)

\* pattern.search(rendered): the leftmost match; match.span() is
\* (start, end), backspace_group.count("<") is backspaces
search(text, key) ==
    LET i == CHOOSE i \in 0..(Len(text) - 1) :
                 /\ MatchAt(text, i, key)
                 /\ \A j \in 0..(i - 1) : ~MatchAt(text, j, key)
        k == Backspaces(text, i + 1)
    IN  [start |-> i, end |-> i + Len(Placeholder(k, key)), backspaces |-> k]

\* a splice that ignores the markers
StartAtBrace(match) == match.start

\* start -= backspaces
Start(match) == match.start - match.backspaces

\* regions whose positions are never adjusted
_keep_region_positions(regs, idx, orig_len, new_len) == regs

\* the tie decided the other way: a region that starts at idx moves whole
_adjust_from_idx(regs, idx, orig_len, new_len) ==
    LET shift == new_len - orig_len
    IN  [key \in DOMAIN regs |->
            LET region == regs[key]
            IN  IF region.a >= idx
                THEN [a |-> region.a + shift, b |-> region.b + shift]
                ELSE IF region.b > idx
                THEN [a |-> region.a, b |-> region.b + shift]
                ELSE region]

_adjust_region_positions(regs, idx, orig_len, new_len) ==
    LET shift == new_len - orig_len
    IN  [key \in DOMAIN regs |->
            LET region == regs[key]
            IN  IF region.a > idx
                THEN [a |-> region.a + shift, b |-> region.b + shift]
                ELSE IF region.b > idx \/ region.a = idx
                THEN [a |-> region.a, b |-> region.b + shift]
                ELSE region]

\* OrderedDict.__setitem__: a new key goes to the end, a known key keeps
\* its place
Keys(kc) == {kc[i].key : i \in 1..Len(kc)}
SetItem(kc, entry) ==
    IF entry.key \in Keys(kc)
    THEN [i \in 1..Len(kc) |-> IF kc[i].key = entry.key THEN entry ELSE kc[i]]
    ELSE Append(kc, entry)

RECURSIVE SetItems(_, _)
SetItems(kc, entries) ==
    IF entries = <<>> THEN kc
    ELSE SetItems(SetItem(kc, Head(entries)), Tail(entries))

Plain(key, text) ==
    [key |-> key, tuple |-> FALSE, text |-> text, children |-> <<>>]

\* ---- the inputs of a pass ----------------------------------------------
RECURSIVE Concats(_, _)
Concats(items, n) ==
    IF n = 0 THEN {<<>>}
    ELSE LET S == Concats(items, n - 1)
         IN  S \cup {s \o i : s \in S, i \in items}

Literal == <<"X">>
TemplateItems ==
    {Literal} \cup {Placeholder(0, key) : key \in Sections}
              \cup {Placeholder(k, key) : k \in 1..MaxBackspaces, key \in Marked}
SubTemplateItems ==
    {Literal} \cup {Placeholder(0, key) : key \in ChildSections}
Templates == Concats(TemplateItems, MaxItems)
SubTemplates == Concats(SubTemplateItems, MaxSubItems)

\* what the render function of a section returns: a text, or for section
\* "a" a tuple of a sub-template and the render functions of its children
Outputs(key) ==
    {Plain(key, t) : t \in PlainTexts} \cup
    (IF key = "a"
     THEN {[key |-> key, tuple |-> TRUE, text |-> s,
            children |-> <<Plain("x", tx), Plain("y", ty)>>] :
              s \in SubTemplates, tx \in PlainTexts, ty \in {<<"Y">>}}
     ELSE {})

\* self.partials is a plain dict: its iteration order is not the order of
\* definition
PartialOrders == {<<"a", "b">>, <<"b", "a">>}

RenderInit ==
    /\ StoreInit
    /\ NoOthers
    /\ template \in Templates
    /\ \E order \in PartialOrders, fa \in Outputs("a"), fb \in Outputs("b") :
          partials = [i \in 1..2 |-> IF order[i] = "a" THEN fa ELSE fb]
    /\ keyed_content = <<>>
    /\ cursor = 0
    /\ rendered = <<>>
    /\ regions = <<>>
    /\ phase = "call"
    /\ invoked = [n \in Sections \cup ChildSections |-> 0]
    /\ spliced = [n \in Sections \cup ChildSections |-> 0]
    /\ last = <<>>
    /\ marks = <<>>

\* ---- _render_template --------------------------------------------------
\* rendered = self.template; regions = {}
_render_template ==
    /\ phase = "call"
    /\ rendered' = template
    /\ marks' = Repeat({}, Len(template))
    /\ regions' = <<>>
    /\ phase' = "get_keyed_content"
    /\ UNCHANGED <<template, partials, keyed_content, cursor, invoked,
                   spliced, last>>

\* the calls of render functions that storing `entries` stands for
Calls(counts, entries) ==
    [n \in DOMAIN counts |->
        counts[n] + Cardinality({i \in 1..Len(entries) : entries[i].key = n})]

\* "for key in keyed_content" from position i on: a tuple is replaced by
\* its sub-template, its render functions are called and their outputs
\* stored; the walk goes on through the keys stored on the way
RECURSIVE Expand(_, _, _)
Expand(kc, counts, i) ==
    IF i > Len(kc) THEN [keyed_content |-> kc, invoked |-> counts]
    ELSE LET output == kc[i]
         IN  IF output.tuple
             THEN Expand(SetItems([kc EXCEPT ![i] = Plain(output.key, output.text)],
                                  output.children),
                         Calls(counts, output.children), i + 1)
             ELSE Expand(kc, counts, i + 1)

\* a get_keyed_content that keeps the render functions of a tuple in
\* self.partials
RegistryWithChildren(registry, kc) ==
    registry \o SelectSeq(kc, LAMBDA entry :
                    \A i \in 1..Len(registry) : registry[i].key # entry.key)

\* self.partials after get_keyed_content: the queue is a fresh OrderedDict,
\* self.partials is only read
Registry(registry, kc) == registry

\* keyed_content = OrderedDict((key, render_fn()) for key, render_fn in
\* self.partials.items()), then the walk, then return keyed_content; the
\* loop over keyed_content.items() starts at its first key
get_keyed_content ==
    /\ phase = "get_keyed_content"
    /\ LET out == Expand(partials, Calls(invoked, partials), 1)
       IN  /\ keyed_content' = out.keyed_content
           /\ invoked' = out.invoked
    /\ partials' = Registry(partials, keyed_content')
    /\ cursor' = 1
    /\ phase' = "for key, new_content"
    /\ UNCHANGED <<template, rendered, regions, spliced, last, marks>>

\* one turn of "while match": the leftmost placeholder of the key is
\* replaced, the regions are adjusted, the region of the key is recorded
splice ==
    /\ phase = "for key, new_content"
    /\ cursor <= Len(keyed_content)
    /\ LET key == keyed_content[cursor].key
           new_content == keyed_content[cursor].text
           new_content_len == Len(new_content)
       IN  /\ Spans(rendered, key) # {}
           /\ spliced[key] < MaxSplices
           /\ Len(rendered) <= MaxLen
           /\ LET match == search(rendered, key)
                  start == Start(match)
                  end == match.end
                  adjusted == _adjust_region_positions(
                                  regions, start, end - start, new_content_len)
                  mark == marks[match.start + 1]
                              \cup {<<key, spliced[key] + 1>>}
              IN  /\ rendered' = Slice(rendered, 0, start) \o new_content
                                   \o Slice(rendered, end, Len(rendered))
                  /\ marks' = Slice(marks, 0, start)
                                \o Repeat(mark, new_content_len)
                                \o Slice(marks, end, Len(marks))
                  /\ regions' =
                       IF new_content_len > 0
                       THEN (key :> [a |-> start, b |-> start + new_content_len])
                            @@ adjusted
                       ELSE adjusted
                  /\ last' = <<[key |-> key, start |-> match.start,
                                end |-> end, backspaces |-> match.backspaces,
                                new_content |-> new_content,
                                rendered |-> rendered, regions |-> regions]>>
           /\ spliced' = [spliced EXCEPT ![key] = @ + 1]
    /\ UNCHANGED <<template, partials, keyed_content, cursor, phase, invoked>>

\* pattern.search finds nothing: the for loop takes the next key
next_key ==
    /\ phase = "for key, new_content"
    /\ cursor <= Len(keyed_content)
    /\ ~Found(rendered, keyed_content[cursor].key)
    /\ cursor' = cursor + 1
    /\ UNCHANGED <<template, partials, keyed_content, rendered, regions,
                   phase, invoked, spliced, last, marks>>

\* return rendered, regions
_render_template_return ==
    /\ phase = "for key, new_content"
    /\ cursor > Len(keyed_content)
    /\ phase' = "returned"
    /\ UNCHANGED <<template, partials, keyed_content, cursor, rendered,
                   regions, invoked, spliced, last, marks>>

RenderNext ==
    /\ \/ _render_template
       \/ get_keyed_content
       \/ splice
       \/ next_key
       \/ _render_template_return
    /\ UNCHANGED <<vars, ovars>>

RenderSpec == RenderInit /\ [][RenderNext]_rvars

\* ---- claims about the render engine -------------------------------------
Returned == phase = "returned"

\* the content get_keyed_content holds for a key
Content(key) ==
    LET i == CHOOSE i \in 1..Len(keyed_content) : keyed_content[i].key = key
    IN  keyed_content[i].text

\* C11: after a pass every region of the returned mapping lies inside the
\* final text: 0 <= start <= end <= len(final text).
C11_RegionsWithinText ==
    Returned =>
        \A key \in DOMAIN regions :
            /\ 0 <= regions[key].a
            /\ regions[key].a <= regions[key].b
            /\ regions[key].b <= Len(rendered)

\* C12: after a pass the slice of the final text under the region of a name
\* is the content spliced for that name (stated for the names whose content
\* holds no placeholder, so that no later splice falls inside it).
C12_RegionHoldsContent ==
    Returned =>
        \A key \in DOMAIN regions :
            (\A i \in 1..Len(Content(key)) : Content(key)[i] # "{")
            => Slice(rendered, regions[key].a, regions[key].b) = Content(key)

\* C13: a splice at site index i that changes the length by delta moves
\* both ends of a region that starts after i, moves only the end of a
\* region that ends after i or starts at i, and leaves every other region
\* alone; the tests are made in this order.
C13_AdjustRule ==
    last # <<>> =>
        LET l == last[1]
            i == l.start - l.backspaces
            delta == Len(l.new_content) - (l.end - i)
            others == IF l.new_content = <<>> THEN DOMAIN l.regions
                      ELSE DOMAIN l.regions \ {l.key}
        IN  \A key \in others :
                LET before == l.regions[key]
                    after == regions[key]
                IN  IF before.a > i
                    THEN /\ after.a = before.a + delta
                         /\ after.b = before.b + delta
                    ELSE IF before.b > i \/ before.a = i
                    THEN /\ after.a = before.a
                         /\ after.b = before.b + delta
                    ELSE after = before

\* a splice at the very start of a recorded region that changes the length
C13_Witness ==
    /\ last # <<>>
    /\ \E key \in DOMAIN last[1].regions \ {last[1].key} :
          /\ last[1].regions[key].a = last[1].start - last[1].backspaces
          /\ last[1].regions[key].b > last[1].regions[key].a
          /\ regions[key].b # last[1].regions[key].b

\* C14: the template "X{<< b}" with b rendering "Y" resolves to "XY", and
\* the region of b covers the "Y" only.
C14_BackspaceExample ==
    (/\ Returned
     /\ template = <<"X">> \o Placeholder(2, "b")
     /\ \E i \in 1..Len(partials) : partials[i] = Plain("b", <<"Y">>))
    => /\ rendered = <<"X", "Y">>
       /\ "b" \in DOMAIN regions
       /\ regions["b"] = [a |-> 1, b |-> 2]

\* C15: a placeholder at offset p with k markers, k <= p, is replaced
\* together with the k characters before it by the text of the section,
\* which then starts at offset p - k; a text that is not empty gets the
\* region [p - k, p - k + len(text)).
C15_BackspaceSplice ==
    last # <<>> =>
        LET l == last[1]
            p == l.start
            k == l.backspaces
            text == l.new_content
        IN  k <= p =>
              /\ SubSeq(l.rendered, p + 1, l.end) = Placeholder(k, l.key)
              /\ rendered = SubSeq(l.rendered, 1, p - k) \o text
                              \o SubSeq(l.rendered, l.end + 1, Len(l.rendered))
              /\ text # <<>> =>
                    /\ l.key \in DOMAIN regions
                    /\ regions[l.key] = [a |-> p - k, b |-> p - k + Len(text)]

\* a placeholder with markers, all of them with a character to consume
C15_Witness ==
    /\ last # <<>>
    /\ last[1].backspaces >= 1
    /\ last[1].backspaces <= last[1].start
    /\ last[1].new_content # <<>>

\* the text holds a placeholder for the name, with any number of markers
HasPlaceholder(text, name) ==
    \E i \in 0..Len(text), k \in 0..Len(text) :
        Slice(text, i, i + Len(Placeholder(k, name))) = Placeholder(k, name)

\* neither the template nor any content of the queue places the name
Unplaced(name) ==
    /\ ~HasPlaceholder(template, name)
    /\ \A i \in 1..Len(keyed_content) :
          ~HasPlaceholder(keyed_content[i].text, name)

\* the text the loop over the queue kc makes of `text` from entry i on
RECURSIVE Resolve(_, _, _)
Resolve(text, kc, i) ==
    IF i > Len(kc) THEN text
    ELSE IF Spans(text, kc[i].key) = {} THEN Resolve(text, kc, i + 1)
    ELSE LET match == search(text, kc[i].key)
         IN  Resolve(Slice(text, 0, Start(match)) \o kc[i].text
                        \o Slice(text, match.end, Len(text)),
                     kc, i)

Without(kc, name) == SelectSeq(kc, LAMBDA entry : entry.key # name)

\* C16: a section that no template and no content places is still rendered
\* exactly once, nothing is spliced for it, the text is the text of the
\* pass without it, and the mapping has no key for it.
C16_ZeroOccurrence ==
    Returned =>
        \A name \in Keys(keyed_content) :
            Unplaced(name) =>
                /\ invoked[name] = 1
                /\ spliced[name] = 0
                /\ name \notin DOMAIN regions
                /\ rendered = Resolve(template, Without(keyed_content, name), 1)

\* a registered section without a placeholder, in a pass that splices
\* another one
C16_Witness ==
    /\ Returned
    /\ \E name \in Sections, other \in Sections :
          Unplaced(name) /\ spliced[other] >= 1

\* what a render function of the interface returned in this pass
PartialOf(key) ==
    partials[CHOOSE i \in 1..Len(partials) : partials[i].key = key]

\* a template without markers read from left to right: every placeholder
\* gives way to the text of its name, which is the region of the name
RECURSIVE Fill(_, _, _, _)
Fill(rest, texts, out, regs) ==
    IF rest = <<>> THEN [text |-> out, regions |-> regs]
    ELSE IF Head(rest) = "{"
    THEN LET name == rest[2]
             text == texts[name]
         IN  Fill(SubSeq(rest, 4, Len(rest)), texts, out \o text,
                  IF text = <<>> THEN regs
                  ELSE (name :> [a |-> Len(out), b |-> Len(out) + Len(text)])
                       @@ regs)
    ELSE Fill(Tail(rest), texts, Append(out, Head(rest)), regs)

\* no markers, plain sections only, no name placed twice
PlainTemplate ==
    /\ \A i \in 1..Len(template) : template[i] # "<"
    /\ \A i \in 1..Len(partials) : ~partials[i].tuple
    /\ \A i, j \in 1..Len(template) :
          (template[i] \in Sections /\ template[i] = template[j]) => i = j

\* C17: a template of literal text and placeholders without markers for
\* distinct plain sections resolves to the template with every placeholder
\* replaced by the text of its section, and the region of every section
\* with text is the range of its text, in either registration order.
C17_PlainEndToEnd ==
    (Returned /\ PlainTemplate) =>
        LET filled == Fill(template, [n \in Sections |-> PartialOf(n).text],
                           <<>>, <<>>)
        IN  /\ rendered = filled.text
            /\ regions = filled.regions

\* both sections have text, and the one spliced first stands behind the
\* other, so that its region had to move
C17_Witness ==
    /\ Returned
    /\ PlainTemplate
    /\ DOMAIN regions = Sections
    /\ regions[partials[1].key].a > regions[partials[2].key].a
    /\ template # rendered

\* C18: the sub-template of a tuple is spliced as the content of its
\* section and its child placeholders are resolved later in the same pass:
\* the region of the parent covers exactly the expanded sub-template and
\* every child with text has its own region inside it.
C18_NestedEndToEnd ==
    (Returned /\ PartialOf("a").tuple /\ spliced["a"] >= 1) =>
        LET parent == PartialOf("a")
            expanded ==
                Fill(parent.text,
                     [n \in ChildSections |->
                        parent.children[CHOOSE i \in 1..Len(parent.children) :
                                          parent.children[i].key = n].text],
                     <<>>, <<>>)
        IN  expanded.text # <<>> =>
              /\ "a" \in DOMAIN regions
              /\ regions["a"].b - regions["a"].a = Len(expanded.text)
              /\ Slice(rendered, regions["a"].a, regions["a"].b) = expanded.text
              /\ \A child \in DOMAIN expanded.regions :
                    /\ child \in DOMAIN regions
                    /\ regions[child].a = regions["a"].a + expanded.regions[child].a
                    /\ regions[child].b = regions["a"].a + expanded.regions[child].b

\* C19: no region of the returned mapping is zero-width.
C19_NoVacuousRegion ==
    Returned => \A key \in DOMAIN regions : regions[key].a # regions[key].b

\* the characters of the final text that stem from the n-th splice of a name
Extent(name, n) == {i \in 1..Len(marks) : <<name, n>> \in marks[i]}

\* C20: a name placed several times is spliced at every occurrence, and
\* at the end of the pass its one region covers the occurrence spliced
\* last; no region is recorded for an empty text.
C20_LastOccurrence ==
    Returned =>
        \A name \in Keys(keyed_content) :
            spliced[name] >= 2 =>
                /\ ~HasPlaceholder(rendered, name)
                /\ IF Content(name) = <<>> THEN name \notin DOMAIN regions
                   ELSE /\ name \in DOMAIN regions
                        /\ Extent(name, spliced[name]) =
                             (regions[name].a + 1)..regions[name].b

\* C21: as long as no section's text places its own name, every splice
\* leaves strictly fewer placeholders of the spliced name in the text than
\* there were before it, so the while loop of every key ends.
C21_SpliceReducesOccurrences ==
    last # <<>> =>
        LET l == last[1]
        IN  ~HasPlaceholder(l.new_content, l.key) =>
                Cardinality(Spans(rendered, l.key))
                    < Cardinality(Spans(l.rendered, l.key))

\* ======================================================================
\* Repeated passes of one interface (Interface.render called again)
\* ======================================================================
MaxPassItems == 2    \* literals and placeholders in the texts of a pass
MaxCrossItems == 2   \* literals and placeholders in a text that names a section

\* templates that also place a child name outside its parent
PassTemplates ==
    Concats({Literal, Placeholder(0, "a"), Placeholder(0, "x")}, MaxPassItems)

\* what the render functions return in one pass: "a" a text or a tuple
\* that brings the child "x", "b" a text
PassOutputs(key) ==
    {Plain(key, t) : t \in PlainTexts} \cup
    (IF key = "a"
     THEN {[key |-> key, tuple |-> TRUE, text |-> s,
            children |-> <<Plain("x", tx)>>] :
              s \in Concats({Literal, Placeholder(0, "x")}, MaxPassItems),
              tx \in PlainTexts}
     ELSE {})

PassesInit ==
    /\ StoreInit
    /\ template \in PassTemplates
    /\ \E fa \in PassOutputs("a"), fb \in PassOutputs("b") :
          partials = <<fa, fb>>
    /\ keyed_content = <<>>
    /\ cursor = 0
    /\ rendered = <<>>
    /\ regions = <<>>
    /\ phase = "call"
    /\ invoked = [n \in Sections \cup ChildSections |-> 0]
    /\ spliced = [n \in Sections \cup ChildSections |-> 0]
    /\ last = <<>>
    /\ marks = <<>>
    /\ passes = 1
    /\ resolved_before = {}
    /\ NoDashboards /\ NoOffers /\ NoDraws /\ NoBranchCommands

\* Interface.render is called again: the render functions of self.partials
\* are called anew by the pass that starts
render ==
    /\ phase = "returned"
    /\ passes < MaxPasses
    /\ \E fa \in PassOutputs("a"), fb \in PassOutputs("b") :
          partials' = [i \in 1..Len(partials) |->
                          IF partials[i].key = "a" THEN fa
                          ELSE IF partials[i].key = "b" THEN fb
                          ELSE partials[i]]
    /\ passes' = passes + 1
    /\ resolved_before' =
          resolved_before \cup {c \in ChildSections : spliced[c] > 0}
    /\ phase' = "call"
    /\ keyed_content' = <<>>
    /\ cursor' = 0
    /\ rendered' = <<>>
    /\ regions' = <<>>
    /\ invoked' = [n \in DOMAIN invoked |-> 0]
    /\ spliced' = [n \in DOMAIN spliced |-> 0]
    /\ last' = <<>>
    /\ marks' = <<>>
    /\ UNCHANGED template

PassesNext ==
    /\ \/ (_render_template /\ UNCHANGED pvars)
       \/ (get_keyed_content /\ UNCHANGED pvars)
       \/ (splice /\ UNCHANGED pvars)
       \/ (next_key /\ UNCHANGED pvars)
       \/ (_render_template_return /\ UNCHANGED pvars)
       \/ render
    /\ UNCHANGED <<vars, svars, ivars, dvars, bvars>>

PassesSpec == PassesInit /\ [][PassesNext]_<<rvars, pvars>>

\* the running pass got the child from a tuple of one of its sections
ProducedNow(child) ==
    \E i \in 1..Len(partials) :
        /\ partials[i].tuple
        /\ \E j \in 1..Len(partials[i].children) :
              partials[i].children[j].key = child

\* C22: in every pass self.partials holds exactly the sections declared on
\* the class, and a child name is spliced in a pass only if a tuple of
\* that pass brought it.
C22_ChildrenAreTransient ==
    /\ {partials[i].key : i \in 1..Len(partials)} = Sections
    /\ \A child \in ChildSections : spliced[child] > 0 => ProducedNow(child)

\* a later pass that does not bring the child an earlier pass resolved, and
\* leaves the child's placeholder in the text
C22_Witness ==
    /\ Returned
    /\ passes = 2
    /\ "x" \in resolved_before
    /\ ~ProducedNow("x")
    /\ HasPlaceholder(rendered, "x")


\* ======================================================================
\* One pass whose sub-template names a declared section
\* ======================================================================
\* The sub-template a tuple brings may hold a placeholder of a section of
\* self.partials as well as those of its children.
CrossTemplates == Concats({Literal} \cup {Placeholder(0, key) : key \in Sections},
                          MaxCrossItems)
CrossSubTemplates ==
    Concats({Literal, Placeholder(0, "x"), Placeholder(0, "b")}, MaxCrossItems)

CrossOutputs(key) ==
    {Plain(key, t) : t \in PlainTexts} \cup
    (IF key = "a"
     THEN {[key |-> key, tuple |-> TRUE, text |-> s,
            children |-> <<Plain("x", tx)>>] :
              s \in CrossSubTemplates, tx \in PlainTexts}
     ELSE {})

CrossInit ==
    /\ StoreInit
    /\ NoOthers
    /\ template \in CrossTemplates
    /\ \E order \in PartialOrders,
          fa \in CrossOutputs("a"), fb \in CrossOutputs("b") :
          partials = [i \in 1..2 |-> IF order[i] = "a" THEN fa ELSE fb]
    /\ keyed_content = <<>>
    /\ cursor = 0
    /\ rendered = <<>>
    /\ regions = <<>>
    /\ phase = "call"
    /\ invoked = [n \in Sections \cup ChildSections |-> 0]
    /\ spliced = [n \in Sections \cup ChildSections |-> 0]
    /\ last = <<>>
    /\ marks = <<>>

CrossSpec == CrossInit /\ [][RenderNext]_rvars

\* ---- C37 ----
\* C37: after a pass the text holds no placeholder of a name that was in
\* the queue of the pass, whatever the order of the queue and whichever
\* text brought the placeholder.
C37_NoQueuedPlaceholderLeft ==
    Returned =>
        \A i \in 1..Len(keyed_content) :
            ~HasPlaceholder(rendered, keyed_content[i].key)

\* ======================================================================
\* Dashboards: Interface.__new__/__init__, gs_interface_close,
\* gs_interface_refresh, gs_tags_toggle_remotes, the fetch of remote tags
\* ======================================================================
\* Commands and constructions run on the UI thread, one at a time; the
\* tasks given to enqueue_on_worker run on the one worker thread, oldest
\* first.  render() of an interface is up to three steps: its start
\* (pre_render and the calls of the render functions up to the test of
\* get_remote_tags_list), the enqueueing of a fetch when the test asked
\* for one, and its return (draw).

InterfaceTypes == {"branch", "tags"}

\* window.views(): the open views of a window
WindowViews(w) == {v \in 1..Len(views) : views[v].window = w /\ ~views[v].closed}

\* an Interface.__new__ that does not look for a view
SearchesNothing(interface_type, repo_path) == {}

\* Interface.__new__: the views of the active window whose settings name
\* this interface type and this repo path
Matching(interface_type, repo_path) ==
    {v \in WindowViews(active_window) :
        /\ views[v].interface = interface_type
        /\ views[v].repo_path = repo_path}

\* a task of the worker queue; arg is the argument the task was enqueued
\* with (the index picked in the quick panel, the selection of a delete)
Task(kind, view, interface, arg) ==
    [kind |-> kind, view |-> view, interface |-> interface,
     gen |-> IF interface = 0 THEN 0 ELSE objects[interface].gen,
     arg |-> arg]

\* TagsInterface.pre_render: if self.remotes is None, fresh remote records
\* are built
pre_render(objs, o) ==
    IF objs[o].interface_type = "tags" /\ objs[o].remote = "None"
    THEN [objs EXCEPT ![o].remote = "unfetched", ![o].gen = @ + 1]
    ELSE objs

\* the start of render() of interface o, after pre_render: what the thread
\* holds after the test of get_remote_tags_list, the interface alone or
\* the interface and the remote record (its generation) it found without
\* tags, erred and loading
PreRender(objs, o) ==
    IF /\ objs[o].interface_type = "tags"
       /\ objs[o].show_remotes
       /\ objs[o].remote = "unfetched"
    THEN <<o, objs[o].gen>>
    ELSE <<o>>

\* enqueue_on_worker(do_tags_fetch); remote["loading"] = True, on the
\* record the thread holds
EnqueueFetch(objs, q, held) ==
    LET o == held[1]
        gen == held[2]
    IN  [objects |-> [objs EXCEPT
                        ![o].remote = IF objs[o].gen = gen /\ @ = "unfetched"
                                      THEN "loading" ELSE @,
                        ![o].fetches = Append(@, gen)],
         queue |-> Append(q, [kind |-> "do_tags_fetch", view |-> objs[o].view,
                              interface |-> o, gen |-> gen, arg |-> 0])]

\* a whole render() of interface o with no other thread in between
StartRender(objs, q, o) ==
    LET built == pre_render(objs, o)
    IN  IF Len(PreRender(built, o)) = 2
        THEN EnqueueFetch(built, q, PreRender(built, o))
        ELSE [objects |-> built, queue |-> q]

\* Interface.__init__: returns at once on an object that has been set up
__init__(obj) ==
    IF obj.initialized THEN obj
    ELSE [obj EXCEPT !.initialized = TRUE, !.inits = @ + 1]

\* super().__new__(cls) followed by __init__(view=view); the setting
\* show_remotes_in_tags_dashboard, read by the first pre_render, is on
NewObject(interface_type, view) ==
    __init__([interface_type |-> interface_type, view |-> view,
              remote |-> "None", show_remotes |-> TRUE, gen |-> 0,
              fetches |-> <<>>, git |-> 0, initialized |-> FALSE,
              inits |-> 0])

\* what a render started on a closed view adds to the history
Late(what, view) == IF views[view].closed THEN {<<what, view>>} ELSE {}

DashboardInit ==
    StoreInit /\ NoRender /\ NoPasses /\ NoOffers /\ NoDraws /\ NoDashboards
    /\ NoBranchCommands

\* the user brings another window to the front
focus_window(w) ==
    /\ running["ui"] = <<>>
    /\ commands < MaxCommands
    /\ w # active_window
    /\ active_window' = w
    /\ commands' = commands + 1
    /\ UNCHANGED <<views, interfaces, objects, queue, running,
                   returned_existing, on_close_calls, late, aborted, errors>>

\* cls(repo_path=...): __new__ and __init__; a new interface makes its
\* view and renders it before it is registered
Interface(interface_type, repo_path) ==
    /\ running["ui"] = <<>>
    /\ commands < MaxCommands
    /\ commands' = commands + 1
    /\ LET found == Matching(interface_type, repo_path)
       IN  IF found # {}
           THEN LET view == Min(found)
                IN  IF view \in DOMAIN interfaces
                    THEN /\ returned_existing' = returned_existing + 1
                         /\ objects' = [objects EXCEPT
                                           ![interfaces[view]] = __init__(@)]
                         /\ UNCHANGED <<views, interfaces, queue>>
                    ELSE /\ objects' = Append(objects,
                                  __init__(NewObject(interface_type, view)))
                         /\ interfaces' = (view :> Len(objects) + 1) @@ interfaces
                         /\ UNCHANGED <<views, queue, returned_existing>>
           ELSE LET view == Len(views) + 1
                    o == Len(objects) + 1
                    started == StartRender(
                        Append(objects,
                               __init__(NewObject(interface_type, view))),
                        queue, o)
                IN  /\ views' = Append(views, [window |-> active_window,
                                               interface |-> interface_type,
                                               repo_path |-> repo_path,
                                               closed |-> FALSE])
                    /\ objects' = started.objects
                    /\ queue' = started.queue
                    /\ interfaces' = (view :> o) @@ interfaces
                    /\ UNCHANGED returned_existing
    /\ UNCHANGED <<active_window, running, on_close_calls, late, aborted,
                   errors>>

\* gs_interface_close.run, as the view closes or once more after that
gs_interface_close(view) ==
    /\ running["ui"] = <<>>
    /\ commands < MaxCommands
    /\ commands' = commands + 1
    /\ views' = [views EXCEPT ![view].closed = TRUE]
    /\ IF view \in DOMAIN interfaces
       THEN /\ on_close_calls' =
                 (view :> (IF view \in DOMAIN on_close_calls
                           THEN on_close_calls[view] + 1 ELSE 1))
                 @@ on_close_calls
            /\ queue' = Append(queue, Task("pop", view, 0, 0))
       ELSE UNCHANGED <<on_close_calls, queue>>
    /\ UNCHANGED <<active_window, interfaces, objects, running,
                   returned_existing, late, aborted, errors>>

\* gs_interface_refresh.run: enqueue_on_worker(self.run_async, ...)
gs_interface_refresh(view) ==
    /\ running["ui"] = <<>>
    /\ commands < MaxCommands
    /\ commands' = commands + 1
    /\ queue' = Append(queue, Task("run_async", view, 0, 0))
    /\ UNCHANGED <<active_window, views, interfaces, objects, running,
                   returned_existing, on_close_calls, late, aborted, errors>>

\* gs_tags_toggle_remotes.run on the view of a registered tags interface:
\* interface.remotes = None, show_remotes flipped, interface.render()
gs_tags_toggle_remotes(view) ==
    /\ running["ui"] = <<>>
    /\ commands < MaxCommands
    /\ ~views[view].closed
    /\ views[view].interface = "tags"
    /\ view \in DOMAIN interfaces
    /\ commands' = commands + 1
    /\ LET o == interfaces[view]
           reset == [objects EXCEPT ![o].remote = "None",
                                    ![o].show_remotes = ~@]
       IN  /\ objects' = pre_render(reset, o)
           /\ running' = [running EXCEPT !["ui"] = PreRender(objects', o)]
    /\ UNCHANGED <<active_window, views, interfaces, queue, returned_existing,
                   on_close_calls, late, aborted, errors>>

\* gs_tags_push: the user picks remote_idx in the quick panel (-1 when the
\* panel is dismissed) and push_async enqueues push_all or push_selected
push_async(view, remote_idx, push_all) ==
    /\ running["ui"] = <<>>
    /\ commands < MaxCommands
    /\ ~views[view].closed
    /\ views[view].interface = "tags"
    /\ view \in DOMAIN interfaces
    /\ commands' = commands + 1
    /\ queue' = Append(queue,
                       Task(IF push_all THEN "push_all" ELSE "push_selected",
                            view, interfaces[view], remote_idx))
    /\ UNCHANGED <<active_window, views, interfaces, objects, running,
                   returned_existing, on_close_calls, late, aborted, errors>>

\* gs_tags_delete.run is handed to the worker (@on_worker); selection is 1
\* for selected local tags, 2 for selected remote tags, 3 for both
gs_tags_delete(view, selection) ==
    /\ running["ui"] = <<>>
    /\ commands < MaxCommands
    /\ ~views[view].closed
    /\ views[view].interface = "tags"
    /\ view \in DOMAIN interfaces
    /\ commands' = commands + 1
    /\ queue' = Append(queue,
                       Task("gs_tags_delete", view, interfaces[view], selection))
    /\ UNCHANGED <<active_window, views, interfaces, objects, running,
                   returned_existing, on_close_calls, late, aborted, errors>>

\* a tag operation that asks for the refresh before it resets
\* interface.remotes, and leaves the reset out
resets_nothing(obj) == obj

\* interface.remotes = None
resets_remotes(obj) == [obj EXCEPT !.remote = "None"]

\* the worker runs push_selected or push_all: git push, then
\* interface.remotes = None, then refresh_gitsavvy
worker_push ==
    /\ running["worker"] = <<>>
    /\ queue # <<>>
    /\ Head(queue).kind \in {"push_selected", "push_all"}
    /\ LET task == Head(queue)
           o == task.interface
       IN  IF task.arg = -1
           THEN /\ queue' = Tail(queue)
                /\ UNCHANGED objects
           ELSE /\ objects' = [objects EXCEPT
                                 ![o] = resets_remotes([@ EXCEPT !.git = @ + 1])]
                /\ queue' = Append(Tail(queue),
                                   Task("run_async", task.view, 0, 0))
    /\ UNCHANGED <<active_window, views, interfaces, running, commands,
                   returned_existing, on_close_calls, late, aborted, errors>>

\* the worker runs gs_tags_delete.run: delete_local (git tag -d and a
\* refresh when local tags are selected), delete_remote (nothing when
\* interface.remotes is empty or None; else git push --delete for the
\* selected remote tags, interface.remotes = None, a refresh), a refresh
worker_gs_tags_delete ==
    /\ running["worker"] = <<>>
    /\ queue # <<>>
    /\ Head(queue).kind = "gs_tags_delete"
    /\ LET task == Head(queue)
           o == task.interface
           refresh == Task("run_async", task.view, 0, 0)
           local == task.arg \in {1, 3}
           remote == task.arg \in {2, 3}
           has_remotes == objects[o].remote # "None"
           commands_run == (IF local THEN 1 ELSE 0)
                           + (IF has_remotes /\ remote THEN 1 ELSE 0)
           counted == [objects[o] EXCEPT !.git = @ + commands_run]
       IN  /\ objects' = [objects EXCEPT
                             ![o] = IF has_remotes THEN resets_remotes(counted)
                                    ELSE counted]
           /\ queue' = Tail(queue)
                         \o (IF local THEN <<refresh>> ELSE <<>>)
                         \o (IF has_remotes THEN <<refresh>> ELSE <<>>)
                         \o <<refresh>>
    /\ UNCHANGED <<active_window, views, interfaces, running, commands,
                   returned_existing, on_close_calls, late, aborted, errors>>

\* the worker runs lambda: interfaces.pop(view_id)
worker_pop ==
    /\ running["worker"] = <<>>
    /\ queue # <<>>
    /\ Head(queue).kind = "pop"
    /\ queue' = Tail(queue)
    /\ IF Head(queue).view \in DOMAIN interfaces
       THEN /\ interfaces' = Pop(interfaces, Head(queue).view)
            /\ UNCHANGED errors
       ELSE /\ errors' = errors \cup {"KeyError"}
            /\ UNCHANGED interfaces
    /\ UNCHANGED <<active_window, views, objects, running, commands,
                   returned_existing, on_close_calls, late, aborted>>

\* the worker runs gs_interface_refresh.run_async up to the start of
\* interface.render(nuke_cursors=nuke_cursors); BranchInterface.render
\* takes no such argument, the call raises TypeError
worker_run_async ==
    /\ running["worker"] = <<>>
    /\ queue # <<>>
    /\ Head(queue).kind = "run_async"
    /\ queue' = Tail(queue)
    /\ LET view == Head(queue).view
           known == view \in DOMAIN interfaces
           o == IF known THEN interfaces[view] ELSE Len(objects) + 1
       IN  /\ interfaces' = IF known THEN interfaces
                            ELSE (view :> o) @@ interfaces
           /\ objects' =
                 pre_render(IF known THEN objects
                            ELSE Append(objects,
                                        NewObject(views[view].interface, view)),
                            o)
           /\ IF views[view].interface = "branch"
              THEN /\ errors' = errors \cup {"TypeError"}
                   /\ late' = late \cup
                              (IF known THEN {} ELSE Late("register", view))
                   /\ UNCHANGED running
              ELSE /\ running' = [running EXCEPT
                                    !["worker"] = PreRender(objects', o)]
                   /\ late' = late \cup Late("render", view) \cup
                              (IF known THEN {} ELSE Late("register", view))
                   /\ UNCHANGED errors
    /\ UNCHANGED <<active_window, views, commands, returned_existing,
                   on_close_calls, aborted>>

\* a do_tags_fetch whose except clause is missing: a failed fetch records
\* nothing and renders nothing
worker_do_tags_fetch_uncaught(result) ==
    /\ running["worker"] = <<>>
    /\ queue # <<>>
    /\ Head(queue).kind = "do_tags_fetch"
    /\ queue' = Tail(queue)
    /\ LET o == Head(queue).interface
           fetched == IF /\ objects[o].gen = Head(queue).gen
                         /\ objects[o].remote # "None"
                         /\ result = "tags"
                      THEN [objects EXCEPT ![o].remote = result]
                      ELSE objects
       IN  /\ objects' = IF result = "tags" THEN pre_render(fetched, o)
                         ELSE fetched
           /\ running' = IF result = "tags"
                         THEN [running EXCEPT
                                 !["worker"] = PreRender(objects', o)]
                         ELSE running
           /\ late' = late \cup Late("render", objects[o].view)
    /\ UNCHANGED <<active_window, views, interfaces, commands,
                   returned_existing, on_close_calls, aborted, errors>>

\* the worker runs do_tags_fetch up to the start of self.render(): the
\* tags, or the message of the GitSavvyError, go into the remote the
\* closure holds
worker_do_tags_fetch(result) ==
    /\ running["worker"] = <<>>
    /\ queue # <<>>
    /\ Head(queue).kind = "do_tags_fetch"
    /\ queue' = Tail(queue)
    /\ LET o == Head(queue).interface
           fetched == IF /\ objects[o].gen = Head(queue).gen
                         /\ objects[o].remote # "None"
                      THEN [objects EXCEPT ![o].remote = result]
                      ELSE objects
       IN  /\ objects' = pre_render(fetched, o)
           /\ running' = [running EXCEPT !["worker"] = PreRender(objects', o)]
           /\ late' = late \cup Late("render", objects[o].view)
    /\ UNCHANGED <<active_window, views, interfaces, commands,
                   returned_existing, on_close_calls, aborted, errors>>

\* get_remote_tags_list, after its test found the record without tags,
\* erred and loading: the fetch is enqueued and the record marked
get_remote_tags_list(th) ==
    /\ Len(running[th]) = 2
    /\ LET enqueued == EnqueueFetch(objects, queue, running[th])
       IN  /\ objects' = enqueued.objects
           /\ queue' = enqueued.queue
    /\ running' = [running EXCEPT ![th] = <<@[1]>>]
    /\ UNCHANGED <<active_window, views, interfaces, commands,
                   returned_existing, on_close_calls, late, aborted, errors>>

\* render() returns: the document has been drawn
render_returns(th) ==
    /\ Len(running[th]) = 1
    /\ running' = [running EXCEPT ![th] = <<>>]
    /\ UNCHANGED <<active_window, views, interfaces, objects, queue, commands,
                   returned_existing, on_close_calls, late, aborted, errors>>

\* a render function raises: get_keyed_content and render() have no
\* handler, the exception leaves render() before draw
render_raises(th) ==
    /\ running[th] # <<>>
    /\ running' = [running EXCEPT ![th] = <<>>]
    /\ aborted' = aborted \cup {running[th][1]}
    /\ UNCHANGED <<active_window, views, interfaces, objects, queue, commands,
                   returned_existing, on_close_calls, late, errors>>

WorkerStep ==
    \/ worker_pop
    \/ worker_run_async
    \/ \E result \in {"tags", "erred"} : worker_do_tags_fetch(result)
    \/ get_remote_tags_list("worker")
    \/ render_returns("worker")
    \/ render_raises("worker")

DashboardNext ==
    /\ \/ \E w \in Windows : focus_window(w)
       \/ \E cls \in InterfaceTypes, r \in Repos : Interface(cls, r)
       \/ \E v \in 1..Len(views) : gs_interface_close(v)
       \/ \E v \in 1..Len(views) : gs_interface_refresh(v)
       \/ \E v \in 1..Len(views) : gs_tags_toggle_remotes(v)
       \/ get_remote_tags_list("ui")
       \/ render_returns("ui")
       \/ render_raises("ui")
       \/ WorkerStep
    /\ UNCHANGED <<vars, rvars, pvars, ivars, dvars, bvars>>

DashboardSpec == DashboardInit /\ [][DashboardNext]_svars

\* the worker thread runs as long as it has something to run
DashboardLiveSpec == DashboardSpec /\ WF_svars(WorkerStep)

\* one window with tags dashboards, their toggles, pushes, deletions and
\* the refreshes these ask for
TagOpsNext ==
    /\ \/ \E r \in Repos : Interface("tags", r)
       \/ \E v \in 1..Len(views) : gs_tags_toggle_remotes(v)
       \/ \E v \in 1..Len(views), remote_idx \in {-1, 0}, push_all \in BOOLEAN :
              push_async(v, remote_idx, push_all)
       \/ \E v \in 1..Len(views), selection \in 0..3 : gs_tags_delete(v, selection)
       \/ worker_push
       \/ worker_gs_tags_delete
       \/ worker_run_async
       \/ \E result \in {"tags", "erred"} : worker_do_tags_fetch(result)
       \/ \E th \in DashboardThreads : get_remote_tags_list(th)
       \/ \E th \in DashboardThreads : render_returns(th)
    /\ UNCHANGED <<vars, rvars, pvars, ivars, dvars, bvars>>

TagOpsSpec == DashboardInit /\ [][TagOpsNext]_svars

\* ---- C23 ----
OpenViews == {v \in 1..Len(views) : ~views[v].closed}

SamePair(v1, v2) ==
    /\ views[v1].interface = views[v2].interface
    /\ views[v1].repo_path = views[v2].repo_path

C24_NothingActsAfterClose == late = {}

\* ---- C25 ----
\* C25: two render passes of the same dashboard session never overlap in
\* time.
C25_RendersDoNotOverlap ==
    ~(/\ running["ui"] # <<>>
      /\ running["worker"] # <<>>
      /\ running["ui"][1] = running["worker"][1])

\* ---- C26 ----
\* C26: a render pass in which a render function fails still completes and
\* draws a document.
C26_FailingSectionStillDraws == aborted = {}

\* ---- C29 ----
\* C29: no close of a view raises an error, the second close of the same
\* view included, and once the worker queue has run the registry holds no
\* entry for a closed view.
C29_CloseReleases ==
    /\ "KeyError" \notin errors
    /\ (queue = <<>> /\ running["worker"] = <<>>) =>
           \A v \in 1..Len(views) :
               views[v].closed => v \notin DOMAIN interfaces

\* ---- C31 ----
\* C31: every gs_interface_refresh the worker runs on a branch or tags view
\* renders the interface registered for the view: no run of run_async ends
\* in an exception in place of the render.
C31_RefreshRenders == "TypeError" \notin errors

\* ---- C32 ----
\* the fetch tasks waiting for the remote record interface o shows now
FetchesQueued(o) ==
    {i \in 1..Len(queue) :
        /\ queue[i].kind = "do_tags_fetch"
        /\ queue[i].interface = o
        /\ queue[i].gen = objects[o].gen}

Loading(o) == o <= Len(objects) /\ objects[o].remote = "loading"

\* C32: a remote that is loading has a fetch waiting on the worker; when
\* the worker runs a fetch, the tags or the error text are recorded in the
\* remote record the fetch was started for (the record the interface still
\* shows unless interface.remotes was reset) and a fresh render of the
\* interface starts, the render in progress on the calling thread and the
\* region map being left alone; so a loading remote does not stay loading.
C32_FetchResultIsRecorded ==
    /\ [](\A o \in 1..Len(objects) :
             objects[o].remote = "loading" => FetchesQueued(o) # {})
    /\ [][(/\ queue # <<>>
           /\ Head(queue).kind = "do_tags_fetch"
           /\ Len(queue') < Len(queue)) =>
              LET o == Head(queue).interface
              IN  /\ (/\ objects[o].gen = Head(queue).gen
                       /\ objects[o].remote # "None") =>
                         objects'[o].remote \in {"tags", "erred"}
                  /\ running'["worker"] # <<>>
                  /\ running'["worker"][1] = o
                  /\ running'["ui"] = running["ui"]
                  /\ regions' = regions]_svars
    /\ \A o \in 1..MaxCommands : Loading(o) ~> ~Loading(o)

\* the error text of a failed fetch is recorded and the render that
\* follows it is in progress on the worker
C32_Witness ==
    \E o \in 1..Len(objects) :
        /\ objects[o].remote = "erred"
        /\ running["worker"] = <<o>>

\* ---- C34 ----
\* the worker is about to run the task at the head of its queue
Runs(kinds) ==
    /\ queue # <<>>
    /\ Head(queue).kind \in kinds
    /\ running["worker"] = <<>>
    /\ commands' = commands
    /\ running'["ui"] = running["ui"]

C33_OneFetchPerRecord ==
    \A o \in 1..Len(objects) :
        \A i, j \in 1..Len(objects[o].fetches) :
            objects[o].fetches[i] = objects[o].fetches[j] => i = j

\* ======================================================================
\* gs_offer_init and gs_init (core/commands/init.py)
\* ======================================================================
None == "None"

InitInit ==
    /\ StoreInit /\ NoRender /\ NoPasses /\ NoDashboards /\ NoDraws
    /\ NoBranchCommands
    /\ views_with_offer_made = {}
    /\ disable_git_init_prompt \in BOOLEAN
    /\ git_dirs \in SUBSET Dirs
    /\ scheduled = 0
    /\ panels = 0
    /\ offers = 0
    /\ dialogs = [v \in OfferViews |-> 0]
    /\ git_inits = {}

\* self.git("init", working_dir=path) of on_done
on_done(path, re_init) ==
    /\ git_inits' = git_inits \cup {[path |-> path,
                                     had_git |-> path \in git_dirs,
                                     confirmed |-> re_init,
                                     n |-> Cardinality(git_inits)]}
    /\ git_dirs' = git_dirs \cup {path}

\* gs_offer_init.run with active view view; ok is the user's answer to the
\* NO_REPO_MESSAGE dialog when it is shown
gs_offer_init(view, ok) ==
    /\ offers < MaxOffers
    /\ offers' = offers + 1
    /\ IF disable_git_init_prompt
       THEN UNCHANGED <<views_with_offer_made, scheduled, dialogs>>
       ELSE IF view \notin views_with_offer_made
            THEN /\ dialogs' = [dialogs EXCEPT ![view] = @ + 1]
                 /\ IF ok
                    THEN /\ scheduled' = scheduled + 1
                         /\ UNCHANGED views_with_offer_made
                    ELSE /\ views_with_offer_made' =
                              views_with_offer_made \cup {view}
                         /\ UNCHANGED scheduled
            ELSE /\ views_with_offer_made' =
                      views_with_offer_made \cup {view}
                 /\ UNCHANGED <<scheduled, dialogs>>
    /\ UNCHANGED <<disable_git_init_prompt, git_dirs, panels, git_inits>>

\* gs_init.run, called by the user: set_timeout_async(self.run_async, 0)
gs_init ==
    /\ offers < MaxOffers
    /\ offers' = offers + 1
    /\ scheduled' = scheduled + 1
    /\ UNCHANGED <<views_with_offer_made, disable_git_init_prompt, git_dirs,
                   panels, dialogs, git_inits>>

\* gs_init.run_async; git_root is what find_working_dir returns, ok the
\* user's answer to the CONFIRM_REINITIALIZE dialog when it is shown
gs_init_run_async(git_root, ok) ==
    /\ scheduled > 0
    /\ scheduled' = scheduled - 1
    /\ IF git_root # None /\ git_root \in git_dirs
       THEN /\ IF ok THEN on_done(git_root, TRUE)
                     ELSE UNCHANGED <<git_dirs, git_inits>>
            /\ UNCHANGED panels
       ELSE /\ panels' = panels + 1
            /\ UNCHANGED <<git_dirs, git_inits>>
    /\ UNCHANGED <<views_with_offer_made, disable_git_init_prompt, offers,
                   dialogs>>

\* the user submits a path in the REPO_PATH_PROMPT panel: on_done(path)
panel_on_done(path) ==
    /\ panels > 0
    /\ panels' = panels - 1
    /\ on_done(path, FALSE)
    /\ UNCHANGED <<views_with_offer_made, disable_git_init_prompt, scheduled,
                   offers, dialogs>>

\* the user dismisses the panel: on_cancel is None
panel_on_cancel ==
    /\ panels > 0
    /\ panels' = panels - 1
    /\ UNCHANGED <<views_with_offer_made, disable_git_init_prompt, git_dirs,
                   scheduled, offers, dialogs, git_inits>>

InitNext ==
    /\ \/ \E view \in OfferViews, ok \in BOOLEAN : gs_offer_init(view, ok)
       \/ gs_init
       \/ \E git_root \in Dirs \cup {None}, ok \in BOOLEAN :
              gs_init_run_async(git_root, ok)
       \/ \E path \in Dirs : panel_on_done(path)
       \/ panel_on_cancel
    /\ UNCHANGED <<vars, rvars, pvars, svars, dvars, bvars>>

InitSpec == InitInit /\ [][InitNext]_ivars

\* ---- C27 ----
\* C27: gs_offer_init shows its dialog at most once per view, whether the
\* first offer was accepted or cancelled, and never with
\* disable_git_init_prompt set.
C27_OfferOncePerView ==
    \A view \in OfferViews :
        /\ dialogs[view] <= 1
        /\ disable_git_init_prompt => dialogs[view] = 0

\* ---- C28 ----
\* C28: git init runs on a directory that already holds a .git only after
\* the user has confirmed the re-initialise dialog for it.
C28_ReinitNeedsConfirmation ==
    \A g \in git_inits : g.had_git => g.confirmed

\* ======================================================================
\* gs_new_content_and_regions (common/ui.py): the named regions of a view
\* ======================================================================
\* Each view has its own command object, made with the view; the class
\* attribute current_region_names = set() is what it reads before its
\* first run.
DrawViews == {"v1", "v2"}
RegionKeys == {"help", "local_tags", "remote_tags"}

\* "git_savvy_interface." + key
RegionName(key) == <<"git_savvy_interface", key>>

\* a run that erases nothing
NothingToErase(current, keys) == {}

\* self.current_region_names - regions.keys()
ToErase(current, keys) == current \ keys

DrawInit ==
    /\ StoreInit /\ NoRender /\ NoPasses /\ NoDashboards /\ NoOffers
    /\ NoBranchCommands
    /\ region_names = [view \in DrawViews |-> {}]
    /\ current_region_names = [view \in DrawViews |-> {}]
    /\ shown = [view \in DrawViews |-> <<>>]
    /\ draws = 0

\* gs_new_content_and_regions.run on view with a regions mapping whose
\* keys are keys
gs_new_content_and_regions(view, keys) ==
    /\ draws < MaxDraws
    /\ draws' = draws + 1
    /\ LET added == region_names[view] \cup {RegionName(key) : key \in keys}
           erased == {RegionName(key) :
                         key \in ToErase(current_region_names[view], keys)}
       IN  region_names' = [region_names EXCEPT ![view] = added \ erased]
    /\ current_region_names' = [current_region_names EXCEPT ![view] = keys]
    /\ shown' = [shown EXCEPT ![view] = Append(@, keys)]

DrawNext ==
    /\ \E view \in DrawViews, keys \in SUBSET RegionKeys :
           gs_new_content_and_regions(view, keys)
    /\ UNCHANGED <<vars, rvars, pvars, svars, ivars, bvars>>

DrawSpec == DrawInit /\ [][DrawNext]_dvars

\* ---- C30 ----
\* C30: after every run of gs_new_content_and_regions on a view, the named
\* regions of the interface on that view are exactly the keys of the
\* mapping applied last.
C30_RegionsAreLastKeys ==
    \A view \in DrawViews :
        shown[view] # <<>> =>
            region_names[view] =
                {RegionName(key) : key \in shown[view][Len(shown[view])]}

\* a run on a view has dropped a name of the document before it and kept
\* another
C30_Witness ==
    \E view \in DrawViews :
        /\ Len(shown[view]) >= 2
        /\ LET before == shown[view][Len(shown[view]) - 1]
               now == shown[view][Len(shown[view])]
           IN  before \ now # {} /\ before \cap now # {}

\* ---- branch dashboard commands (core/interfaces/branch.py) --------------

BranchCommands ==
    {"gs_branches_rename", "gs_branches_configure_tracking",
     "gs_branches_push_selected", "gs_branches_edit_branch_description"}

\* what a handler did: a flash, a git command, a panel, a window command,
\* a call of refresh_gitsavvy
Effect(kind, arg) == [kind |-> kind, arg |-> arg]

\* Branch.is_remote
is_remote(branch) == branch \in RemoteBranches

\* Branch.name as select_branch leaves it: the canonical name without the
\* remote and its slash
name(branch) == IF branch = "origin/master" THEN "master" ELSE branch

\* one branch when exactly one is selected, else None
get_selected_branch ==
    IF Cardinality(selected_branches) = 1
    THEN CHOOSE branch \in selected_branches : TRUE
    ELSE "None"

BranchInit == StoreInit /\ NoRender /\ NoOthers

\* the user moves the cursors of the dashboard
set_selection(selection) ==
    /\ selection # selected_branches
    /\ selected_branches' = selection
    /\ UNCHANGED <<branch_tasks, open_panels, local_branch, branch_name,
                   effects, branch_commands>>

\* a key binding runs a command; its run is handed to the worker
run_branch_command(cmd) ==
    /\ branch_commands < MaxBranchCommands
    /\ branch_commands' = branch_commands + 1
    /\ branch_tasks' = Append(branch_tasks, cmd)
    /\ UNCHANGED <<selected_branches, open_panels, local_branch, branch_name,
                   effects>>

\* the worker takes cmd from its queue
Takes(cmd) ==
    /\ branch_tasks # <<>>
    /\ Head(branch_tasks) = cmd
    /\ branch_tasks' = Tail(branch_tasks)
    /\ UNCHANGED <<selected_branches, branch_commands>>

gs_branches_rename ==
    /\ Takes("gs_branches_rename")
    /\ LET branch == get_selected_branch
       IN  effects' =
               IF branch = "None" THEN effects
               ELSE IF is_remote(branch)
               THEN Append(effects,
                           Effect("flash", "Cannot rename remote branches."))
               ELSE Append(effects,
                           Effect("run_command",
                                  <<"gs_rename_branch", name(branch)>>))
    /\ UNCHANGED <<open_panels, local_branch, branch_name>>

gs_branches_configure_tracking ==
    /\ Takes("gs_branches_configure_tracking")
    /\ LET branch == get_selected_branch
       IN  IF branch = "None"
           THEN UNCHANGED <<effects, open_panels, local_branch>>
           ELSE IF is_remote(branch)
           THEN /\ effects' =
                      Append(effects,
                             Effect("flash",
                                    "Cannot configure remote branches."))
                /\ UNCHANGED <<open_panels, local_branch>>
           ELSE /\ local_branch' = name(branch)
                /\ effects' = Append(effects,
                                     Effect("panel", "show_branch_panel"))
                /\ open_panels' = open_panels \cup {"show_branch_panel"}
    /\ UNCHANGED branch_name

gs_branches_push_selected ==
    /\ Takes("gs_branches_push_selected")
    /\ LET branch == get_selected_branch
       IN  effects' =
               IF branch = "None" THEN effects
               ELSE IF is_remote(branch)
               THEN Append(effects,
                           Effect("flash", "Cannot push remote branches."))
               ELSE Append(effects,
                           Effect("run_command", <<"gs_push", name(branch)>>))
    /\ UNCHANGED <<open_panels, local_branch, branch_name>>

\* the test of is_remote flashes and does not return
gs_branches_edit_branch_description ==
    /\ Takes("gs_branches_edit_branch_description")
    /\ LET branch == get_selected_branch
           flashed ==
               IF is_remote(branch)
               THEN <<Effect("flash",
                             "Cannot edit descriptions for remote branches.")>>
               ELSE <<>>
       IN  IF branch = "None"
           THEN UNCHANGED <<effects, open_panels, branch_name>>
           ELSE /\ branch_name' = name(branch)
                /\ effects' =
                      effects \o flashed \o
                      <<Effect("git", <<"config", "description", name(branch)>>),
                        Effect("panel", "show_single_line_input_panel")>>
                /\ open_panels' =
                      open_panels \cup {"show_single_line_input_panel"}
    /\ UNCHANGED local_branch

\* the user answers a panel
Answers(panel) ==
    /\ panel \in open_panels
    /\ branch_commands < MaxBranchCommands
    /\ branch_commands' = branch_commands + 1
    /\ open_panels' = open_panels \ {panel}
    /\ UNCHANGED <<selected_branches, branch_tasks, local_branch, branch_name>>

on_branch_selection(branch) ==
    /\ Answers("show_branch_panel")
    /\ effects' = effects \o
                  <<Effect("git", <<"branch", "-u", branch, local_branch>>),
                    Effect("refresh", "refresh_gitsavvy")>>

on_entered_description(new_description) ==
    /\ Answers("show_single_line_input_panel")
    /\ effects' = effects \o
                  <<Effect("git",
                           <<"config",
                             IF new_description = "" THEN "--unset" ELSE "None",
                             branch_name, new_description>>),
                    Effect("refresh", "refresh_gitsavvy")>>

BranchNext ==
    /\ \/ \E selection \in SUBSET Branches :
              Cardinality(selection) <= 2 /\ set_selection(selection)
       \/ \E cmd \in BranchCommands : run_branch_command(cmd)
       \/ gs_branches_rename
       \/ gs_branches_configure_tracking
       \/ gs_branches_push_selected
       \/ gs_branches_edit_branch_description
       \/ \E branch \in RemoteBranches : on_branch_selection(branch)
       \/ \E new_description \in {"", "text"} :
              on_entered_description(new_description)
    /\ UNCHANGED <<vars, rvars, pvars, svars, ivars, dvars>>

BranchSpec == BranchInit /\ [][BranchNext]_bvars

\* the worker runs one of cmds while the single selected branch is remote,
\* and the run only flashes
RemoteBranchStops(cmds) ==
    (/\ branch_tasks # <<>>
     /\ Head(branch_tasks) \in cmds
     /\ branch_tasks' = Tail(branch_tasks)
     /\ get_selected_branch # "None"
     /\ is_remote(get_selected_branch)) =>
        /\ Len(effects') = Len(effects) + 1
        /\ effects'[Len(effects')].kind = "flash"
        /\ open_panels' = open_panels

\* ---- C35 ----
\* C35: when the single selected branch is remote, rename, configure
\* tracking, push selected and edit description flash their message and
\* stop: no git command, no panel, no further command.
C35_RemoteBranchStops == [][RemoteBranchStops(BranchCommands)]_bvars

====
